---- MODULE Spec2Model ----
(***************************************************************************)
(* Model of the ink! betting contract of src/lib.rs.                       *)
(*                                                                         *)
(* The contract is modelled as its messages are written: Mapping::take     *)
(* deletes the record when it reads it, and a message that then returns    *)
(* Err (or panics) does not put the record back.  This is also how the     *)
(* repository's own #[ink::test] unit tests execute the messages (direct   *)
(* method calls on the storage struct, no rollback).                       *)
(*                                                                         *)
(* An arithmetic fault (an overflowing BlockNumber addition, a division by *)
(* zero) ends the message with the result "Panic" at the place it occurs.  *)
(*                                                                         *)
(* Balance is u128 and BlockNumber is u32; both are wider than the         *)
(* integers of the model checker, so every number is a pair <<hi, lo>>     *)
(* standing for hi * Base + lo with 0 <= lo < Base.                        *)
(***************************************************************************)
EXTENDS Integers, Sequences, FiniteSets, TLC

VARIABLES matches, owner, now, ret

vars == <<matches, owner, now, ret>>

----------------------------------------------------------------------------
(* Numbers                                                                 *)

Base == 10^6

\* The number k (0 <= k < 2^31) as a pair.
N(k) == <<k \div Base, k % Base>>

Zero == N(0)

One == N(1)

Hundred == N(100)

Add(a, b) == <<a[1] + b[1] + ((a[2] + b[2]) \div Base), (a[2] + b[2]) % Base>>

Lt(a, b) == a[1] < b[1] \/ (a[1] = b[1] /\ a[2] < b[2])

Le(a, b) == ~Lt(b, a)

\* a - b, for b <= a.
Sub(a, b) ==
    IF a[2] >= b[2] THEN <<a[1] - b[1], a[2] - b[2]>>
    ELSE <<a[1] - b[1] - 1, a[2] + Base - b[2]>>

\* a * k for a natural k < Base, three digits of a's low half at a time.
Scale(a, k) ==
    LET mk == (a[2] \div 1000) * k
        low == (mk % 1000) * 1000 + (a[2] % 1000) * k
    IN  <<a[1] * k + (mk \div 1000) + (low \div Base), low % Base>>

\* a * b.
Mul(a, b) ==
    LET high == Scale(b, a[1])
    IN  Add(<<high[1] * Base + high[2], 0>>, Scale(b, a[2]))

\* a / d truncated, for a natural 0 < d < Base: schoolbook division, three
\* digits of a's low half at a time.
ShortDiv(a, d) ==
    LET t1 == (a[1] % d) * 1000 + (a[2] \div 1000)
        t2 == (t1 % d) * 1000 + (a[2] % 1000)
    IN  <<a[1] \div d, (t1 \div d) * 1000 + (t2 \div d)>>

\* a / d truncated, for d >= Base: the quotient lies between the quotients
\* of the high halves taken low and high, and is the k with k*d <= a < (k+1)*d.
LongDiv(a, d) ==
    N(CHOOSE k \in (a[1] \div (d[1] + 1))..((a[1] + 1) \div d[1]) :
        Le(Scale(d, k), a) /\ Lt(a, Scale(d, k + 1)))

\* Truncating division a / d, for d > 0.
Div(a, d) == IF d[1] = 0 THEN ShortDiv(a, d[2]) ELSE LongDiv(a, d)

\* BlockNumber is u32.
U32Max == <<4294, 967295>>

MIN_DEPOSIT == <<1000000, 0>>

----------------------------------------------------------------------------
(* Bounds and input sets                                                   *)

MaxTime == 3

MaxBets == 2

Accounts == {"alice", "django"}

\* The account that constructs the contract (the accounts are alike, so one
\* choice stands for them all).
Deployers == {"alice"}

TeamNames == {"team1"}

MatchResult == {"Team1Victory", "Team2Victory", "Draw"}

ResultValues == {"Team1Victory", "Team2Victory"}

StartValues == {N(1)}

LengthValues == {N(1), U32Max}

\* Lengths of matches of which the second ends after the first can be settled.
LongLengthValues == {N(1), N(2)}

\* Values transferred with create_match_to_bet.
DepositValues == {Sub(MIN_DEPOSIT, One), MIN_DEPOSIT}

\* Values transferred with create_match_to_bet, one of them above MIN_DEPOSIT.
WideDepositValues == DepositValues \cup {Add(MIN_DEPOSIT, One)}

\* Values transferred with bet.
AmountValues == {<<10000000, 0>>, <<30000000, 0>>}

\* Values transferred with bet that are not multiples of 100, one of them
\* below 100.
SmallAmountValues == {N(50), N(150)}

None == "None"

----------------------------------------------------------------------------
(* Storage                                                                 *)

exists_match(a) == a \in DOMAIN matches

get_match(a) == IF a \in DOMAIN matches THEN <<matches[a]>> ELSE <<>>

\* take that removes every record.
take_all(map, k) == [a \in {} |-> map[a]]

\* take that removes nothing.
take_nothing(map, k) == map

\* The Mapping without the record under key k (Mapping::take's effect).
take(map, k) == [a \in (DOMAIN map) \ {k} |-> map[a]]

\* insert that drops the records under all other keys.
insert_alone(map, k, m) == [a \in {k} |-> m]

\* The Mapping with m stored under key k (Mapping::insert's effect).
insert(map, k, m) == [a \in (DOMAIN map) \cup {k} |-> IF a = k THEN m ELSE map[a]]

Match(start, length, team1, team2, deposit) ==
    [start |-> start, length |-> length, team1 |-> team1, team2 |-> team2,
     result |-> None, bets |-> <<>>, deposit |-> deposit]

Bet(bettor, amount, result) ==
    [bettor |-> bettor, amount |-> amount, result |-> result]

\* contains that stops one element short of the end.
contains_but_last(bets, b) == \E i \in 1..(Len(bets) - 1) : bets[i] = b

\* contains that compares the bettor only.
contains_bettor(bets, b) == \E i \in 1..Len(bets) : bets[i].bettor = b.bettor

\* Line 212: Vec::contains, equality on all three fields of Bet.
contains(bets, b) == \E i \in 1..Len(bets) : bets[i] = b

\* Call of a message that emits no event.
Call_without_events(op, result, transfers, events) ==
    [op |-> op, result |-> result, transfers |-> transfers, events |-> <<>>]

\* What the last message left for its caller and the host: the message, its
\* return value, the transfers it made (in order) and the events it emitted.
Call(op, result, transfers, events) ==
    [op |-> op, result |-> result, transfers |-> transfers, events |-> events]

----------------------------------------------------------------------------
(* Messages                                                                *)

Init ==
    /\ owner \in Deployers
    /\ matches = << >>
    /\ now = Zero
    /\ ret = Call("new", "Ok", <<>>, <<>>)

\* start + length does not fit BlockNumber.
end_overflows(start, length) == Lt(U32Max, Add(start, length))

\* create_check with the open-match check made last instead of first.
create_check_exists_last(caller, start, length, value) ==
    IF end_overflows(start, length) THEN "Panic"
    ELSE IF Lt(Add(start, length), now) THEN "TimeMatchOver"
    ELSE IF Lt(value, MIN_DEPOSIT) THEN "NotEnoughDeposit"
    ELSE IF exists_match(caller) THEN "OriginHasAlreadyOpenMatch"
    ELSE "Ok"

\* create_check without the check of the deposit.
create_check_any_deposit(caller, start, length, value) ==
    IF exists_match(caller) THEN "OriginHasAlreadyOpenMatch"
    ELSE IF end_overflows(start, length) THEN "Panic"
    ELSE IF Lt(Add(start, length), now) THEN "TimeMatchOver"
    ELSE "Ok"

\* Lines 147-160: the checks of create_match_to_bet, in order.
create_check(caller, start, length, value) ==
    IF exists_match(caller) THEN "OriginHasAlreadyOpenMatch"
    ELSE IF end_overflows(start, length) THEN "Panic"
    ELSE IF Lt(Add(start, length), now) THEN "TimeMatchOver"
    ELSE IF Lt(value, MIN_DEPOSIT) THEN "NotEnoughDeposit"
    ELSE "Ok"

create_match_to_bet(caller, team1, team2, start, length, value) ==
    LET res == create_check(caller, start, length, value)
        betting_match == Match(start, length, team1, team2, value)
    IN  /\ matches' = IF res = "Ok" THEN insert(matches, caller, betting_match)
                      ELSE matches
        /\ ret' = Call("create_match_to_bet", res, <<>>,
                       IF res = "Ok"
                       THEN << <<"MatchCreated", caller, team1, team2, start, length>> >>
                       ELSE <<>>)
        /\ UNCHANGED <<owner, now>>

\* bet_check without the check that the match has not started.
bet_check_any_time(match_to_bet, new_bet) ==
    IF contains(match_to_bet.bets, new_bet) THEN "AlreadyBet" ELSE "Ok"

\* Lines 200-213: the checks of bet on the record taken from storage.
bet_check(match_to_bet, new_bet) ==
    IF Lt(match_to_bet.start, now) THEN "MatchHasStarted"
    ELSE IF contains(match_to_bet.bets, new_bet) THEN "AlreadyBet"
    ELSE "Ok"

\* bet_store that puts the new bet in front of the others.
bet_store_in_front(match_id, new_bet, res) ==
    IF ~exists_match(match_id) THEN matches
    ELSE IF res = "Ok"
    THEN insert(take(matches, match_id), match_id,
                [matches[match_id] EXCEPT !.bets = <<new_bet>> \o @])
    ELSE take(matches, match_id)

\* Lines 194-197 and 214-217: what bet leaves in storage.
bet_store(match_id, new_bet, res) ==
    IF ~exists_match(match_id) THEN matches
    ELSE IF res = "Ok"
    THEN insert(take(matches, match_id), match_id,
                [matches[match_id] EXCEPT !.bets = Append(@, new_bet)])
    ELSE take(matches, match_id)

bet(caller, match_id, result, amount) ==
    LET new_bet == Bet(caller, amount, result)
        res == IF ~exists_match(match_id) THEN "MatchDoesNotExist"
               ELSE bet_check(matches[match_id], new_bet)
    IN  /\ matches' = bet_store(match_id, new_bet, res)
        /\ ret' = Call("bet", res, <<>>,
                       IF res = "Ok"
                       THEN << <<"BetPlaced", match_id, caller, amount, result>> >>
                       ELSE <<>>)
        /\ UNCHANGED <<owner, now>>

\* set_result_check with the end of the match counted as over (< for <=).
set_result_check_at_end(caller, match_id) ==
    IF caller # owner THEN "BadOrigin"
    ELSE IF ~exists_match(match_id) THEN "MatchDoesNotExist"
    ELSE IF end_overflows(matches[match_id].start, matches[match_id].length) THEN "Panic"
    ELSE IF Lt(now, Add(matches[match_id].start, matches[match_id].length))
    THEN "TimeMatchNotOver"
    ELSE "Ok"

\* set_result_check with the origin check made after the record is looked up.
set_result_check_origin_second(caller, match_id) ==
    IF ~exists_match(match_id) THEN "MatchDoesNotExist"
    ELSE IF caller # owner THEN "BadOrigin"
    ELSE IF end_overflows(matches[match_id].start, matches[match_id].length) THEN "Panic"
    ELSE IF Le(now, Add(matches[match_id].start, matches[match_id].length))
    THEN "TimeMatchNotOver"
    ELSE "Ok"

\* Lines 240-252: the checks of set_result, in order.
set_result_check(caller, match_id) ==
    IF caller # owner THEN "BadOrigin"
    ELSE IF ~exists_match(match_id) THEN "MatchDoesNotExist"
    ELSE IF end_overflows(matches[match_id].start, matches[match_id].length) THEN "Panic"
    ELSE IF Le(now, Add(matches[match_id].start, matches[match_id].length))
    THEN "TimeMatchNotOver"
    ELSE "Ok"

\* set_result_store that stores the match with its bets emptied.
set_result_store_without_bets(match_id, result, res) ==
    IF res \in {"BadOrigin", "MatchDoesNotExist"} THEN matches
    ELSE IF res = "Ok"
    THEN insert(take(matches, match_id), match_id,
                [matches[match_id] EXCEPT !.result = result, !.bets = <<>>])
    ELSE take(matches, match_id)

\* Lines 244-247 and 253-256: what set_result leaves in storage.
set_result_store(match_id, result, res) ==
    IF res \in {"BadOrigin", "MatchDoesNotExist"} THEN matches
    ELSE IF res = "Ok"
    THEN insert(take(matches, match_id), match_id,
                [matches[match_id] EXCEPT !.result = result])
    ELSE take(matches, match_id)

set_result(caller, match_id, result) ==
    LET res == set_result_check(caller, match_id)
    IN  /\ matches' = set_result_store(match_id, result, res)
        /\ ret' = Call("set_result", res, <<>>,
                       IF res = "Ok"
                       THEN << <<"MatchResultSet", match_id, result>> >>
                       ELSE <<>>)
        /\ UNCHANGED <<owner, now>>

RECURSIVE tally(_, _)
\* Lines 277-286: one pass over the bets, in order, summing every amount
\* into total_bet and the amounts of the bets on `result` into total_winners.
tally(bets, result) ==
    IF bets = <<>>
    THEN [total_winners |-> Zero, total_bet |-> Zero, winners |-> <<>>]
    ELSE LET t == tally(SubSeq(bets, 1, Len(bets) - 1), result)
             b == bets[Len(bets)]
         IN  [total_bet |-> Add(t.total_bet, b.amount),
              total_winners |-> IF b.result = result
                                THEN Add(t.total_winners, b.amount)
                                ELSE t.total_winners,
              winners |-> IF b.result = result THEN Append(t.winners, b)
                          ELSE t.winners]

\* amount_won with the share taken of the whole pool instead of the winning side.
amount_won_of_pool(amount, total_winners, total_bet) ==
    Mul(Div(amount, Div(total_bet, Hundred)), Div(total_bet, Hundred))

\* Lines 289-290.
amount_won(amount, total_winners, total_bet) ==
    LET weighted == Div(amount, Div(total_winners, Hundred))
    IN  Mul(weighted, Div(total_bet, Hundred))

\* planned_transfers with the deposit sent back before the winners are paid.
planned_transfers_refund_first(caller, match_to_delete) ==
    LET t == tally(match_to_delete.bets, match_to_delete.result)
    IN  <<[to |-> caller, amount |-> match_to_delete.deposit]>>
        \o [i \in 1..Len(t.winners) |->
               [to |-> t.winners[i].bettor,
                amount |-> amount_won(t.winners[i].amount, t.total_winners, t.total_bet)]]

\* Lines 288-298: the transfers distribute_winnings asks the host for, in
\* order: one per winning bet, then the deposit to the caller.
planned_transfers(caller, match_to_delete) ==
    LET t == tally(match_to_delete.bets, match_to_delete.result)
    IN  [i \in 1..Len(t.winners) |->
            [to |-> t.winners[i].bettor,
             amount |-> amount_won(t.winners[i].amount, t.total_winners, t.total_bet)]]
        \o <<[to |-> caller, amount |-> match_to_delete.deposit]>>

\* divides_by_zero with the division made even when no bet has won.
divides_by_zero_without_winners(match_to_delete) ==
    LET t == tally(match_to_delete.bets, match_to_delete.result)
    IN  Div(t.total_winners, Hundred) = Zero

\* Line 289 divides by total_winners / 100.
divides_by_zero(match_to_delete) ==
    LET t == tally(match_to_delete.bets, match_to_delete.result)
    IN  t.winners # <<>> /\ Div(t.total_winners, Hundred) = Zero

\* Lines 268-300.  `funded` is the number of transfers the host carries out
\* before it refuses one (env().transfer returns Err).
distribute_check(caller, funded) ==
    IF ~exists_match(caller) THEN "MatchDoesNotExist"
    ELSE IF matches[caller].result = None THEN "MatchNotResult"
    ELSE IF divides_by_zero(matches[caller]) THEN "Panic"
    ELSE IF funded < Len(planned_transfers(caller, matches[caller])) THEN "TransferFailed"
    ELSE "Ok"

\* Min that counts the refused transfer as carried out.
MinAndNext(a, b) == IF a < b THEN a + 1 ELSE b

Min(a, b) == IF a < b THEN a ELSE b

distribute_winnings(caller, funded) ==
    LET res == distribute_check(caller, funded)
    IN  /\ matches' = take(matches, caller)
        /\ ret' = Call("distribute_winnings", res,
                       IF res \in {"Ok", "TransferFailed"}
                       THEN LET planned == planned_transfers(caller, matches[caller])
                            IN  SubSeq(planned, 1, Min(funded, Len(planned)))
                       ELSE <<>>,
                       <<>>)
        /\ UNCHANGED <<owner, now>>

\* The host's clock: the block number only grows.
advance_block ==
    /\ Lt(now, N(MaxTime))
    /\ now' = Add(now, One)
    /\ UNCHANGED <<matches, owner, ret>>

RECURSIVE stored_bets(_)
\* The number of bets held in storage under the keys `keys`.
stored_bets(keys) ==
    IF keys = {} THEN 0
    ELSE LET k == CHOOSE a \in keys : TRUE
         IN  Len(matches[k].bets) + stored_bets(keys \ {k})

\* bet, as long as storage holds fewer than `cap` bets when it stores one.
bounded_bet(caller, match_id, result, amount, cap) ==
    /\ bet(caller, match_id, result, amount)
    /\ ret'.result = "Ok" => stored_bets(DOMAIN matches) < cap

\* The numbers of transfers the host may carry out in one message.
Funded(cap) == 0..(cap + 1)

\* One message, or one block of the host.  Matches are created by `creators`
\* with a length of `lengths` and a transferred value of `deposits`, bets
\* transfer a value of `amounts`, and storage holds at most `cap` bets.
NextFor(creators, lengths, deposits, amounts, cap) ==
    \/ \E caller \in creators, team1 \in TeamNames, team2 \in TeamNames,
          start \in StartValues, length \in lengths, value \in deposits :
          create_match_to_bet(caller, team1, team2, start, length, value)
    \/ \E caller \in Accounts, match_id \in Accounts,
          result \in ResultValues, amount \in amounts :
          bounded_bet(caller, match_id, result, amount, cap)
    \/ \E caller \in Accounts, match_id \in Accounts, result \in ResultValues :
          set_result(caller, match_id, result)
    \/ \E caller \in Accounts, funded \in Funded(cap) :
          distribute_winnings(caller, funded)
    \/ advance_block

NextWith(creators, lengths, amounts, cap) ==
    NextFor(creators, lengths, DepositValues, amounts, cap)

NextOn(creators, amounts, cap) == NextWith(creators, LengthValues, amounts, cap)

Next == NextOn(Accounts, AmountValues, MaxBets)

Spec == Init /\ [][Next]_vars

\* One creator, so one match at a time, with one more bet.
NextOneMatch == NextOn({"django"}, AmountValues, MaxBets + 1)

SpecOneMatch == Init /\ [][NextOneMatch]_vars

\* One creator and bets of small values.
NextSmall == NextOn({"django"}, SmallAmountValues, MaxBets)

SpecSmall == Init /\ [][NextSmall]_vars

\* One creator, and matches that may end late enough for a new one to be
\* opened after the first was distributed.
NextReopen == NextWith({"django"}, LongLengthValues, AmountValues, MaxBets)

SpecReopen == Init /\ [][NextReopen]_vars

\* One creator, and deposits below, at and above MIN_DEPOSIT.
NextDeposit ==
    NextFor({"django"}, LengthValues, WideDepositValues, AmountValues, MaxBets)

SpecDeposit == Init /\ [][NextDeposit]_vars

----------------------------------------------------------------------------
(* Claims                                                                  *)

\* The accounts, bet values and transfer counts a message of either
\* specification may be called with.
AllFunded == Funded(MaxBets + 1)

RECURSIVE SumAmounts(_)
\* The sum of the amounts of a sequence of bets.
SumAmounts(bets) ==
    IF bets = <<>> THEN Zero
    ELSE Add(bets[1].amount, SumAmounts(Tail(bets)))

\* The bets of a sequence that predict outcome o, in their order.
Predicting(bets, o) == SelectSeq(bets, LAMBDA b : b.result = o)

\* The share the specification gives a winning stake: divide first, then
\* multiply, truncating at each division.
Share(amount, total_winning, total_bet) ==
    Mul(Div(amount, Div(total_winning, Hundred)), Div(total_bet, Hundred))

Amount10 == <<10000000, 0>>

Amount30 == <<30000000, 0>>

\* C1: a distribute_winnings that returns Ok on a match with outcome O has
\* made, in bet order, exactly one transfer to the bettor of each bet that
\* predicted O, of (amount / (total_winning / 100)) * (total_bet / 100), and
\* besides these only the deposit refund: no bet on another outcome is paid.
\* With 10 and 30 staked on O and 10 against it (units of 10^12) the two
\* payouts are 12.5 and 37.5.
C1_Payouts ==
    [][\A caller \in Accounts, funded \in AllFunded :
          (ret'.result = "Ok" /\ distribute_winnings(caller, funded)) =>
              LET m == matches[caller]
                  won == Predicting(m.bets, m.result)
                  total_winning == SumAmounts(won)
                  total_bet == SumAmounts(m.bets)
                  paid == ret'.transfers
              IN  /\ Len(paid) = Len(won) + 1
                  /\ \A i \in 1..Len(won) :
                        /\ paid[i].to = won[i].bettor
                        /\ paid[i].amount = Share(won[i].amount, total_winning, total_bet)
                        /\ (total_winning = Add(Amount10, Amount30)
                              /\ total_bet = Add(total_winning, Amount10)) =>
                             paid[i].amount = IF won[i].amount = Amount10
                                              THEN <<12500000, 0>>
                                              ELSE <<37500000, 0>>]_vars

\* C1 witness: a distribution that paid 12.5 and 37.5 and refunded the deposit.
C1_Witness ==
    /\ ret.op = "distribute_winnings"
    /\ ret.result = "Ok"
    /\ Len(ret.transfers) = 3
    /\ ret.transfers[1].amount = <<12500000, 0>>
    /\ ret.transfers[2].amount = <<37500000, 0>>

\* C2: no account has a match initially; an account has one right after its
\* create_match_to_bet returned Ok; and a stored match disappears only in a
\* distribute_winnings call of its own creator.
C2_ExistsUntilDistribute ==
    /\ \A a \in Accounts : ~exists_match(a)
    /\ [][\A a \in Accounts :
            /\ (\E t1 \in TeamNames, t2 \in TeamNames, start \in StartValues,
                   length \in LengthValues, value \in DepositValues :
                   ret'.result = "Ok"
                   /\ create_match_to_bet(a, t1, t2, start, length, value)) =>
                   a \in DOMAIN matches'
            /\ (a \in DOMAIN matches /\ a \notin DOMAIN matches') =>
                   \E funded \in AllFunded : distribute_winnings(a, funded)]_vars

\* C3: the successful messages on a match come in lifecycle order.  A bet
\* returns Ok only on a stored match with no outcome yet, set_result returns
\* Ok only on a stored match and leaves it stored with an outcome, and
\* distribute_winnings returns Ok only on a match with an outcome, which it
\* removes; a match that has its outcome keeps it and takes no further bet.
C3_LifecycleOrder ==
    [][/\ \A caller \in Accounts, match_id \in Accounts,
             result \in MatchResult, amount \in AmountValues :
             (ret'.result = "Ok" /\ bet(caller, match_id, result, amount)) =>
                 /\ exists_match(match_id)
                 /\ matches[match_id].result = None
                 /\ matches'[match_id].result = None
       /\ \A caller \in Accounts, match_id \in Accounts, result \in MatchResult :
             (ret'.result = "Ok" /\ set_result(caller, match_id, result)) =>
                 /\ exists_match(match_id)
                 /\ match_id \in DOMAIN matches'
                 /\ matches'[match_id].result # None
                 /\ matches'[match_id].bets = matches[match_id].bets
       /\ \A caller \in Accounts, funded \in AllFunded :
             (ret'.result = "Ok" /\ distribute_winnings(caller, funded)) =>
                 /\ exists_match(caller)
                 /\ matches[caller].result # None
                 /\ caller \notin DOMAIN matches'
       /\ \A a \in DOMAIN matches \cap DOMAIN matches' :
             matches[a].result # None =>
                 /\ matches'[a].result # None
                 /\ matches'[a].bets = matches[a].bets]_vars

\* C3 witness: an outcome was just set on a match that had taken a bet.
C3_Witness ==
    /\ ret.op = "set_result"
    /\ ret.result = "Ok"
    /\ \E a \in DOMAIN matches : matches[a].result # None /\ matches[a].bets # <<>>

\* C4: once a match has an outcome, that outcome is the same for as long as
\* the match is stored.
C4_OutcomeSetOnce ==
    [][\A a \in DOMAIN matches \cap DOMAIN matches' :
          matches[a].result # None => matches'[a].result = matches[a].result]_vars

\* C5: after every step, a stored match with an outcome is over
\* (now > start + length); the owner is the one of construction; and an
\* outcome appears or changes only in a set_result call made by the owner
\* that returned Ok.
C5_OutcomeByOwnerAfterEnd ==
    [][/\ owner' = owner
       /\ \A a \in DOMAIN matches' :
             matches'[a].result # None =>
                 /\ Lt(Add(matches'[a].start, matches'[a].length), now')
                 /\ (a \notin DOMAIN matches \/ matches[a].result # matches'[a].result) =>
                        \E result \in MatchResult :
                            ret'.result = "Ok" /\ set_result(owner, a, result)]_vars

\* C5 witness: the owner has set the outcome of another account's match.
C5_Witness ==
    /\ ret.op = "set_result"
    /\ ret.result = "Ok"
    /\ \E a \in DOMAIN matches : a # owner /\ matches[a].result # None

\* C6: create_match_to_bet returns the first of OriginHasAlreadyOpenMatch
\* (the caller has a match), TimeMatchOver (now > start + length) and
\* NotEnoughDeposit (value < MIN_DEPOSIT) that applies, and Ok when none
\* does; a call that does not return Ok leaves storage as it was.
C6_CreateChecksInOrder ==
    [][\A caller \in Accounts, t1 \in TeamNames, t2 \in TeamNames,
          start \in StartValues, length \in LengthValues, value \in DepositValues :
          (ret'.op = "create_match_to_bet"
             /\ create_match_to_bet(caller, t1, t2, start, length, value)) =>
              /\ ret'.result =
                     IF exists_match(caller) THEN "OriginHasAlreadyOpenMatch"
                     ELSE IF Lt(Add(start, length), now) THEN "TimeMatchOver"
                     ELSE IF Lt(value, MIN_DEPOSIT) THEN "NotEnoughDeposit"
                     ELSE "Ok"
              /\ ret'.result # "Ok" => matches' = matches]_vars

\* C7: create_match_to_bet by an account that has a match returns
\* OriginHasAlreadyOpenMatch whatever its arguments, the block and the value
\* sent, and no create_match_to_bet changes a record that is already stored.
C7_OpenMatchNotOverwritten ==
    [][ret'.op = "create_match_to_bet" =>
          /\ \A a \in DOMAIN matches : a \in DOMAIN matches' /\ matches'[a] = matches[a]
          /\ \A caller \in DOMAIN matches, t1 \in TeamNames, t2 \in TeamNames,
                start \in StartValues, length \in LengthValues, value \in DepositValues :
                create_match_to_bet(caller, t1, t2, start, length, value) =>
                    /\ ret'.result = "OriginHasAlreadyOpenMatch"
                    /\ matches' = matches]_vars

\* C7 witness: an open was refused while the store held a match with a bet.
C7_Witness ==
    /\ ret.op = "create_match_to_bet"
    /\ ret.result = "OriginHasAlreadyOpenMatch"
    /\ \E a \in DOMAIN matches : matches[a].bets # <<>>

\* C8: a bet on a stored match that has started (now > start) returns
\* MatchHasStarted and leaves storage as it was.
C8_StartedBetKeepsMatch ==
    [][\A caller \in Accounts, match_id \in DOMAIN matches,
          result \in MatchResult, amount \in AmountValues :
          (ret'.op = "bet" /\ Lt(matches[match_id].start, now)
             /\ bet(caller, match_id, result, amount)) =>
              /\ ret'.result = "MatchHasStarted"
              /\ matches' = matches]_vars

\* The number of copies of b in a sequence of bets.
Copies(bets, b) == Cardinality({i \in 1..Len(bets) : bets[i] = b})

\* C9: on a stored match that has not started, a bet whose (bettor, amount,
\* predicted) is not yet in the bets returns Ok and one that is returns
\* AlreadyBet; either way the match is stored afterwards with exactly one
\* copy of that bet.
C9_DuplicateBetKeepsOneCopy ==
    [][\A caller \in Accounts, match_id \in DOMAIN matches,
          result \in MatchResult, amount \in AmountValues :
          (ret'.op = "bet" /\ ~Lt(matches[match_id].start, now)
             /\ bet(caller, match_id, result, amount)) =>
              /\ ret'.result = IF contains(matches[match_id].bets,
                                           Bet(caller, amount, result))
                               THEN "AlreadyBet" ELSE "Ok"
              /\ match_id \in DOMAIN matches'
              /\ Copies(matches'[match_id].bets, Bet(caller, amount, result)) = 1]_vars

\* C10: no stored match holds two bets equal in bettor, amount and result.
C10_NoDuplicateBets ==
    \A a \in DOMAIN matches :
        \A i, j \in 1..Len(matches[a].bets) :
            i # j => matches[a].bets[i] # matches[a].bets[j]

\* C10 witness: a match holds two bets of one bettor, which differ in
\* amount or prediction.
C10_Witness ==
    \E a \in DOMAIN matches :
        /\ Len(matches[a].bets) = 2
        /\ matches[a].bets[1].bettor = matches[a].bets[2].bettor

\* C11: a set_result by a caller who is not the owner returns BadOrigin,
\* whether or not match_id has a match and whatever the block, and leaves the
\* store as it was: a targeted match keeps the outcome it had.
C11_NotOwnerBadOrigin ==
    [][\A caller \in Accounts \ {owner}, match_id \in Accounts, result \in MatchResult :
          (ret'.op = "set_result" /\ set_result(caller, match_id, result)) =>
              /\ ret'.result = "BadOrigin"
              /\ matches' = matches]_vars

\* C11 witness: a set_result was refused for its origin while a match that
\* is over and has no outcome is stored.
C11_Witness ==
    /\ ret.op = "set_result"
    /\ ret.result = "BadOrigin"
    /\ \E a \in DOMAIN matches :
          /\ matches[a].result = None
          /\ Lt(Add(matches[a].start, matches[a].length), now)

\* C12: a set_result by the owner on a stored match at now <= start + length
\* returns TimeMatchNotOver and leaves the store as it was, the match still
\* under its key without outcome.
C12_EarlySetResultKeepsMatch ==
    [][\A match_id \in DOMAIN matches, result \in MatchResult :
          (ret'.op = "set_result"
             /\ Le(now, Add(matches[match_id].start, matches[match_id].length))
             /\ set_result(owner, match_id, result)) =>
              /\ ret'.result = "TimeMatchNotOver"
              /\ matches' = matches]_vars

\* C13: a distribute_winnings by an account whose stored match has no
\* outcome returns MatchNotResult, makes no transfer and leaves the store as
\* it was, the match still under the caller's key.
C13_UnsettledDistributeKeepsMatch ==
    [][\A caller \in DOMAIN matches, funded \in AllFunded :
          (ret'.op = "distribute_winnings" /\ matches[caller].result = None
             /\ distribute_winnings(caller, funded)) =>
              /\ ret'.result = "MatchNotResult"
              /\ ret'.transfers = <<>>
              /\ matches' = matches]_vars

\* C14: a distribute_winnings leaves the record of every account but the
\* caller stored as it was; called by an account without a match it returns
\* MatchDoesNotExist, makes no transfer and leaves the store as it was; and
\* a match leaves the store in a distribute_winnings step, or is paid out,
\* only when the call is the one of its creator.
C14_DistributeOwnMatchOnly ==
    [][\A caller \in Accounts, funded \in AllFunded :
          (ret'.op = "distribute_winnings" /\ distribute_winnings(caller, funded)) =>
              /\ \A a \in DOMAIN matches \ {caller} :
                    a \in DOMAIN matches' /\ matches'[a] = matches[a]
              /\ ~exists_match(caller) =>
                    /\ ret'.result = "MatchDoesNotExist"
                    /\ ret'.transfers = <<>>
                    /\ matches' = matches
              /\ ret'.transfers # <<>> =>
                    /\ exists_match(caller)
                    /\ LET planned == planned_transfers(caller, matches[caller])
                       IN  ret'.transfers \in
                               {SubSeq(planned, 1, n) : n \in 1..Len(planned)}]_vars

\* C14 witness: an account without a match called distribute_winnings while
\* another account's match, with an outcome and a bet, was stored.
C14_Witness ==
    /\ ret.op = "distribute_winnings"
    /\ ret.result = "MatchDoesNotExist"
    /\ \E a \in DOMAIN matches : matches[a].result # None /\ matches[a].bets # <<>>

\* C15: a distribute_winnings that returns Ok on a match with exactly two
\* bets, one on the outcome (amount W1) and one against it (amount W2), has
\* paid the winner exactly W1 + W2 and the loser nothing, refunded the
\* deposit, and removed the match.
C15_SingleWinnerTakesPool ==
    [][\A caller \in DOMAIN matches, funded \in AllFunded :
          (ret'.result = "Ok" /\ Len(matches[caller].bets) = 2
             /\ Len(Predicting(matches[caller].bets, matches[caller].result)) = 1
             /\ distribute_winnings(caller, funded)) =>
              LET m == matches[caller]
                  won == Predicting(m.bets, m.result)[1]
              IN  /\ Len(ret'.transfers) = 2
                  /\ ret'.transfers[1].to = won.bettor
                  /\ ret'.transfers[1].amount = SumAmounts(m.bets)
                  /\ caller \notin DOMAIN matches']_vars

\* C16: a distribute_winnings that returns Ok has made one transfer per
\* winning bet and then, as its last transfer and only there, the transfer
\* of the deposit to the caller; one that returns TransferFailed has made
\* transfers to winners only; the deposit of a stored match is the value
\* sent with the create_match_to_bet that stored it, unchanged since.
C16_DepositRefundedLast ==
    [][/\ \A caller \in Accounts, funded \in AllFunded :
             (ret'.result = "Ok" /\ distribute_winnings(caller, funded)) =>
                 LET m == matches[caller]
                     won == Predicting(m.bets, m.result)
                     paid == ret'.transfers
                 IN  /\ Len(paid) = Len(won) + 1
                     /\ paid[Len(paid)] = [to |-> caller, amount |-> m.deposit]
                     /\ \A i \in 1..Len(won) : paid[i].to = won[i].bettor
       /\ \A caller \in Accounts, funded \in AllFunded :
             (ret'.result = "TransferFailed" /\ distribute_winnings(caller, funded)) =>
                 LET won == Predicting(matches[caller].bets, matches[caller].result)
                     paid == ret'.transfers
                 IN  /\ Len(paid) <= Len(won)
                     /\ \A i \in 1..Len(paid) : paid[i].to = won[i].bettor
       /\ \A caller \in Accounts, t1 \in TeamNames, t2 \in TeamNames,
             start \in StartValues, length \in LengthValues, value \in DepositValues :
             (ret'.result = "Ok"
                /\ create_match_to_bet(caller, t1, t2, start, length, value)) =>
                 matches'[caller].deposit = value
       /\ \A a \in DOMAIN matches \cap DOMAIN matches' :
             matches'[a].deposit = matches[a].deposit]_vars

\* C16 witness: a distribution paid a winner and then sent the deposit of
\* MIN_DEPOSIT back to the creator.
C16_Witness ==
    /\ ret.op = "distribute_winnings"
    /\ ret.result = "Ok"
    /\ Len(ret.transfers) = 2
    /\ ret.transfers[1].amount # MIN_DEPOSIT
    /\ ret.transfers[2].amount = MIN_DEPOSIT
    /\ ret.transfers[2].to # ret.transfers[1].to

\* C17: right after a distribute_winnings of account C returned Ok,
\* exists_match(C) is false and get_match(C) is None; a distribute_winnings
\* by an account without a match returns MatchDoesNotExist, makes no transfer
\* and leaves the account without a match; and a create_match_to_bet by an
\* account without a match, with now <= start + length in BlockNumber range
\* and value >= MIN_DEPOSIT, returns Ok and stores a match with no bets and
\* no outcome.
C17_DistributedIsTerminal ==
    [][/\ \A caller \in Accounts, funded \in AllFunded :
             (ret'.op = "distribute_winnings" /\ distribute_winnings(caller, funded)) =>
                 /\ ret'.result = "Ok" =>
                       /\ ~exists_match(caller)'
                       /\ get_match(caller)' = <<>>
                 /\ ~exists_match(caller) =>
                       /\ ret'.result = "MatchDoesNotExist"
                       /\ ret'.transfers = <<>>
                       /\ ~exists_match(caller)'
       /\ \A caller \in Accounts \ DOMAIN matches, t1 \in TeamNames, t2 \in TeamNames,
             start \in StartValues, length \in LengthValues \cup LongLengthValues,
             value \in DepositValues :
             (ret'.op = "create_match_to_bet"
                /\ Le(Add(start, length), U32Max) /\ Le(now, Add(start, length))
                /\ Le(MIN_DEPOSIT, value)
                /\ create_match_to_bet(caller, t1, t2, start, length, value)) =>
                 /\ ret'.result = "Ok"
                 /\ exists_match(caller)'
                 /\ matches'[caller].bets = <<>>
                 /\ matches'[caller].result = None]_vars

\* C17 witness: a distribution has paid a winner and refunded the creator,
\* who has no match any more, at a block where a new match can still be
\* opened.
C17_Witness ==
    /\ ret.op = "distribute_winnings"
    /\ ret.result = "Ok"
    /\ Len(ret.transfers) >= 2
    /\ ~exists_match(ret.transfers[Len(ret.transfers)].to)
    /\ \E start \in StartValues, length \in LongLengthValues :
          Le(now, Add(start, length))

\* C18: when the host refuses one of the transfers of a distribute_winnings
\* on a match with an outcome, the call returns TransferFailed; it has then
\* made exactly the transfers that precede the refused one, in order, and
\* neither the refused one nor any later one (the deposit refund is the last),
\* and the caller's match is no longer stored.
C18_TransferFailureStops ==
    [][\A caller \in Accounts, funded \in AllFunded :
          (ret'.op = "distribute_winnings" /\ ret'.result # "Panic"
             /\ exists_match(caller) /\ matches[caller].result # None
             /\ distribute_winnings(caller, funded)) =>
              LET planned == planned_transfers(caller, matches[caller])
              IN  /\ ret'.result = IF funded < Len(planned) THEN "TransferFailed"
                                   ELSE "Ok"
                  /\ ret'.result = "TransferFailed" =>
                        /\ ret'.transfers = SubSeq(planned, 1, funded)
                        /\ Len(ret'.transfers) < Len(planned)
                        /\ ~exists_match(caller)']_vars

\* C18 witness: a distribution stopped at a refused transfer after it had
\* paid one winner.
C18_Witness ==
    /\ ret.op = "distribute_winnings"
    /\ ret.result = "TransferFailed"
    /\ Len(ret.transfers) = 1

\* C19: a distribute_winnings on a match with an outcome that no bet
\* predicted (a match without bets included) makes no division: it returns
\* Ok, unless the host refuses the refund, having made the transfer of the
\* deposit to the caller and no other, and the match is no longer stored.
C19_NoWinnersRefundOnly ==
    [][\A caller \in DOMAIN matches, funded \in AllFunded :
          (ret'.op = "distribute_winnings" /\ matches[caller].result # None
             /\ Predicting(matches[caller].bets, matches[caller].result) = <<>>
             /\ distribute_winnings(caller, funded)) =>
              /\ ret'.result = IF funded = 0 THEN "TransferFailed" ELSE "Ok"
              /\ ret'.result = "Ok" =>
                    ret'.transfers =
                        <<[to |-> caller, amount |-> matches[caller].deposit]>>
              /\ ret'.result = "TransferFailed" => ret'.transfers = <<>>
              /\ ~exists_match(caller)']_vars

\* C19 witness: a distribution returned Ok with the refund as its only
\* transfer.
C19_Witness ==
    /\ ret.op = "distribute_winnings"
    /\ ret.result = "Ok"
    /\ Len(ret.transfers) = 1

\* C20: every message returns Ok or one of the values of Error; none ends in
\* an arithmetic fault.
C20_NoArithmeticFault ==
    ret.result \in {"Ok", "OriginHasAlreadyOpenMatch", "TimeMatchOver",
                    "NotEnoughDeposit", "MatchDoesNotExist", "MatchHasStarted",
                    "AlreadyBet", "BadOrigin", "TimeMatchNotOver",
                    "MatchNotResult", "TransferFailed"}

\* C21: every stored match has deposit >= MIN_DEPOSIT; a create_match_to_bet
\* that returns Ok stores the transferred value as the deposit of the new
\* match; and no step changes the deposit of a match that stays stored.
C21_DepositAtLeastMinimum ==
    /\ [](\A a \in DOMAIN matches : Le(MIN_DEPOSIT, matches[a].deposit))
    /\ [][/\ \A caller \in Accounts, t1 \in TeamNames, t2 \in TeamNames,
                start \in StartValues, length \in LengthValues,
                value \in WideDepositValues :
                (ret'.op = "create_match_to_bet" /\ ret'.result = "Ok"
                   /\ create_match_to_bet(caller, t1, t2, start, length, value)) =>
                    /\ ~exists_match(caller)
                    /\ matches'[caller].deposit = value
          /\ \A a \in DOMAIN matches \cap DOMAIN matches' :
                matches'[a].deposit = matches[a].deposit]_vars

\* C21 witness: a match created with more than MIN_DEPOSIT has since taken a
\* bet and an outcome and still has that deposit.
C21_Witness ==
    \E a \in DOMAIN matches :
        /\ matches[a].deposit = Add(MIN_DEPOSIT, One)
        /\ matches[a].bets # <<>>
        /\ matches[a].result # None

\* C22: a set_result(match_id, r) that returns Ok leaves the store as it
\* was but for the outcome of the match at match_id, which is r: the match
\* is still stored under match_id with its start, length, teams, bets and
\* deposit.
C22_SetResultChangesOutcomeOnly ==
    [][\A caller \in Accounts, match_id \in Accounts, r \in MatchResult :
          (ret'.op = "set_result" /\ ret'.result = "Ok"
             /\ set_result(caller, match_id, r)) =>
              /\ exists_match(match_id)
              /\ DOMAIN matches' = DOMAIN matches
              /\ \A a \in DOMAIN matches \ {match_id} : matches'[a] = matches[a]
              /\ matches'[match_id].result = r
              /\ \A f \in {"start", "length", "team1", "team2", "bets", "deposit"} :
                    matches'[match_id][f] = matches[match_id][f]]_vars

\* C22 witness: an outcome was just set on a match that holds two bets.
C22_Witness ==
    /\ ret.op = "set_result"
    /\ ret.result = "Ok"
    /\ \E a \in DOMAIN matches :
          /\ ret.events[1] = <<"MatchResultSet", a, matches[a].result>>
          /\ Len(matches[a].bets) = 2

\* C23: a bet returns Ok exactly when match_id has a match, now <= start
\* and (caller, value, predicted) is not among its bets; a bet that returns
\* Ok leaves the store as it was but for that tuple appended to the bets of
\* the match; and in every step the bets of a match that stays stored are
\* unchanged or extended by one bet at the end.
C23_BetAppendsOnly ==
    [][/\ \A caller \in Accounts, match_id \in Accounts,
             result \in MatchResult, amount \in AmountValues :
             (ret'.op = "bet" /\ bet(caller, match_id, result, amount)) =>
                 /\ ret'.result = "Ok" <=>
                       /\ exists_match(match_id)
                       /\ Le(now, matches[match_id].start)
                       /\ \A i \in 1..Len(matches[match_id].bets) :
                             matches[match_id].bets[i] # Bet(caller, amount, result)
                 /\ ret'.result = "Ok" =>
                       matches' = [matches EXCEPT ![match_id].bets =
                                       Append(@, Bet(caller, amount, result))]
       /\ \A a \in DOMAIN matches \cap DOMAIN matches' :
             \/ matches'[a].bets = matches[a].bets
             \/ /\ Len(matches'[a].bets) = Len(matches[a].bets) + 1
                /\ SubSeq(matches'[a].bets, 1, Len(matches[a].bets)) = matches[a].bets]_vars

\* C23 witness: a bet was just appended, as the second, at the block the
\* match starts.
C23_Witness ==
    /\ ret.op = "bet"
    /\ ret.result = "Ok"
    /\ \E a \in DOMAIN matches :
          /\ now = matches[a].start
          /\ Len(matches[a].bets) = 2
          /\ ret.events[1] = <<"BetPlaced", a, matches[a].bets[2].bettor,
                               matches[a].bets[2].amount, matches[a].bets[2].result>>

\* C24: on a stored match that has not started, a bet by a bettor who has
\* bets on it, and which differs from each of them in amount or in predicted
\* outcome, returns Ok and is stored as the last bet; and a bet returns
\* AlreadyBet only when the match holds a bet with the same bettor, amount
\* and predicted outcome.
C24_DuplicateByFullTuple ==
    [][\A caller \in Accounts, match_id \in DOMAIN matches,
          result \in MatchResult, amount \in AmountValues :
          (ret'.op = "bet" /\ bet(caller, match_id, result, amount)) =>
              LET bets == matches[match_id].bets
                  own == {i \in 1..Len(bets) : bets[i].bettor = caller}
              IN  /\ (/\ Le(now, matches[match_id].start)
                      /\ own # {}
                      /\ \A i \in own : bets[i].amount # amount \/ bets[i].result # result) =>
                         /\ ret'.result = "Ok"
                         /\ match_id \in DOMAIN matches'
                         /\ matches'[match_id].bets = Append(bets, Bet(caller, amount, result))
                  /\ ret'.result = "AlreadyBet" =>
                         \E i \in own : bets[i].amount = amount /\ bets[i].result = result]_vars

\* C24 witness: a bettor's second bet on a match, of the same amount as the
\* first on the other outcome, was just accepted.
C24_Witness ==
    /\ ret.op = "bet"
    /\ ret.result = "Ok"
    /\ \E a \in DOMAIN matches :
          /\ Len(matches[a].bets) = 2
          /\ matches[a].bets[1].bettor = matches[a].bets[2].bettor
          /\ matches[a].bets[1].amount = matches[a].bets[2].amount
          /\ matches[a].bets[1].result # matches[a].bets[2].result

RECURSIVE SumTransfers(_)
\* The sum of the amounts of a sequence of transfers.
SumTransfers(transfers) ==
    IF transfers = <<>> THEN Zero
    ELSE Add(transfers[1].amount, SumTransfers(Tail(transfers)))

\* C25: the payouts to winners made by a distribute_winnings that returns
\* Ok (all its transfers but the last, the refund) sum to no more than the
\* pool, the sum of the amounts of all bets of the match.
C25_PayoutsWithinPool ==
    [][\A caller \in DOMAIN matches, funded \in AllFunded :
          (ret'.op = "distribute_winnings" /\ ret'.result = "Ok"
             /\ distribute_winnings(caller, funded)) =>
              LET paid == ret'.transfers
              IN  Le(SumTransfers(SubSeq(paid, 1, Len(paid) - 1)),
                     SumAmounts(matches[caller].bets))]_vars

RECURSIVE Escrow(_, _)
\* The funds held for the matches stored in `map` under `keys`: for each its
\* deposit and the amounts of its bets.
Escrow(map, keys) ==
    IF keys = {} THEN Zero
    ELSE LET k == CHOOSE a \in keys : TRUE
         IN  Add(Add(map[k].deposit, SumAmounts(map[k].bets)),
                 Escrow(map, keys \ {k}))

\* C26: the balance of the contract (the values received with successful
\* create_match_to_bet and bet calls less the transfers sent) is at least the
\* sum of deposit and bet amounts over the stored matches.  Both are zero
\* after construction, so this is stated step by step: for every message
\* whose transfers all succeed, the escrow after it plus what it sent is at
\* most the escrow before it plus what it received; a distribute_winnings
\* sends no more than its own match held.
C26_BalanceCoversEscrow ==
    [][ret'.result # "TransferFailed" =>
          LET before == Escrow(matches, DOMAIN matches)
              after == Add(Escrow(matches', DOMAIN matches'),
                           SumTransfers(ret'.transfers))
          IN  /\ \A caller \in Accounts, t1 \in TeamNames, t2 \in TeamNames,
                    start \in StartValues, length \in LengthValues,
                    value \in DepositValues :
                    (ret'.op = "create_match_to_bet" /\ ret'.result = "Ok"
                       /\ create_match_to_bet(caller, t1, t2, start, length, value)) =>
                        Le(after, Add(before, value))
              /\ \A caller \in Accounts, match_id \in Accounts, result \in MatchResult,
                    amount \in AmountValues \cup SmallAmountValues :
                    (ret'.op = "bet" /\ ret'.result = "Ok"
                       /\ bet(caller, match_id, result, amount)) =>
                        Le(after, Add(before, amount))
              /\ (ret'.result # "Ok" \/ ret'.op \in {"set_result", "distribute_winnings"}) =>
                    Le(after, before)]_vars

\* Whether the step leaves every key of the store but k as it was: stored
\* with the same record, or not stored.
OnlyKeyTouched(k) ==
    /\ DOMAIN matches' \ {k} = DOMAIN matches \ {k}
    /\ \A a \in DOMAIN matches \ {k} : matches'[a] = matches[a]

\* C27: create_match_to_bet and distribute_winnings leave every key but the
\* caller's as it was, bet and set_result every key but match_id's, whether
\* they return Ok or not, and no message changes the owner.
C27_OneKeyPerCall ==
    [][/\ owner' = owner
       /\ \A caller \in Accounts, t1 \in TeamNames, t2 \in TeamNames,
             start \in StartValues, length \in LengthValues, value \in DepositValues :
             (ret'.op = "create_match_to_bet"
                /\ create_match_to_bet(caller, t1, t2, start, length, value)) =>
                 OnlyKeyTouched(caller)
       /\ \A caller \in Accounts, match_id \in Accounts,
             result \in MatchResult, amount \in AmountValues :
             (ret'.op = "bet" /\ bet(caller, match_id, result, amount)) =>
                 OnlyKeyTouched(match_id)
       /\ \A caller \in Accounts, match_id \in Accounts, result \in MatchResult :
             (ret'.op = "set_result" /\ set_result(caller, match_id, result)) =>
                 OnlyKeyTouched(match_id)
       /\ \A caller \in Accounts, funded \in AllFunded :
             (ret'.op = "distribute_winnings" /\ distribute_winnings(caller, funded)) =>
                 OnlyKeyTouched(caller)]_vars

\* C27 witness: an outcome was just set on one match, which holds a bet,
\* while another match is stored without outcome.
C27_Witness ==
    /\ ret.op = "set_result"
    /\ ret.result = "Ok"
    /\ \E a, b \in DOMAIN matches :
          /\ a # b
          /\ ret.events[1] = <<"MatchResultSet", a, matches[a].result>>
          /\ matches[a].bets # <<>>
          /\ matches[b].result = None

\* C28: a create_match_to_bet, bet or set_result that returns Ok has
\* emitted exactly one event, MatchCreated, BetPlaced or MatchResultSet, with
\* the key and the arguments of the call; a call that does not return Ok,
\* and every distribute_winnings, has emitted none.  Every successful open,
\* bet and set_result so adds one event and nothing else adds any.
C28_OneEventPerSuccess ==
    [][/\ \A caller \in Accounts, t1 \in TeamNames, t2 \in TeamNames,
             start \in StartValues, length \in LengthValues, value \in DepositValues :
             (ret'.op = "create_match_to_bet" /\ ret'.result = "Ok"
                /\ create_match_to_bet(caller, t1, t2, start, length, value)) =>
                 ret'.events = << <<"MatchCreated", caller, t1, t2, start, length>> >>
       /\ \A caller \in Accounts, match_id \in Accounts,
             result \in MatchResult, amount \in AmountValues :
             (ret'.op = "bet" /\ ret'.result = "Ok"
                /\ bet(caller, match_id, result, amount)) =>
                 ret'.events = << <<"BetPlaced", match_id, caller, amount, result>> >>
       /\ \A caller \in Accounts, match_id \in Accounts, result \in MatchResult :
             (ret'.op = "set_result" /\ ret'.result = "Ok"
                /\ set_result(caller, match_id, result)) =>
                 ret'.events = << <<"MatchResultSet", match_id, result>> >>
       /\ Len(ret'.events) =
             IF ret'.result = "Ok"
                /\ ret'.op \in {"create_match_to_bet", "bet", "set_result"}
             THEN 1 ELSE 0]_vars

\* C28 witness: a match was just created at the last block that allows it
\* and MatchCreated was emitted for it.
C28_Witness ==
    /\ ret.op = "create_match_to_bet"
    /\ ret.result = "Ok"
    /\ Len(ret.events) = 1
    /\ ret.events[1][1] = "MatchCreated"
    /\ ret.events[1][2] \in DOMAIN matches
    /\ now = Add(ret.events[1][5], ret.events[1][6])

====
